---- MODULE Spec2Model ----
(***************************************************************************)
(* Pond: the query engine of the log-record broker.                        *)
(*                                                                         *)
(* One Database (a capacity-bounded ring of Records with an append         *)
(* broadcaster) and one Query holding a Selection (Cursor + Filter +       *)
(* end_id).  Cursor and Selection are translated from src/src/Cursor.cxx   *)
(* and src/src/Selection.cxx.  Database, LightCursor, Filter and the       *)
(* Connection's handlers are not part of the source tree at hand; they     *)
(* follow sections 4.1 - 4.4 of the specification.                         *)
(*                                                                         *)
(* A Record pointer is represented by the id of the Record it points to;   *)
(* 0 is the null pointer.  Ids are never reused, so a pointer whose id is  *)
(* not live is a dangling pointer.                                         *)
(***************************************************************************)
EXTENDS Integers, Sequences, FiniteSets, TLC

\* ------------------------------------------------------------------ bounds

\* capacity of the Database ring
Capacity == 3

\* number of appends in a run (caps last_id)
MaxAppends == 5

\* number of LOG_RECORD frames the outbound buffer absorbs in one handler
MaxBatch == 2

\* --------------------------------------------------------------- constants

\* Net::Log::TimePoint::min(), the default of Filter::since
TMin == 0

\* the timestamps records carry
Times == {1, 2}

\* Net::Log::TimePoint::max(), the default of Filter::until
TMax == 3

\* stands for 2^64-1, the initial end_id: larger than every record id
UINT64_MAX == 2147483647

\* the sites records carry
Sites == {"a", "b"}

\* "no site filter"
NoSite == "*"

\* the site filters a query can set
FilterSites == {"a"}

\* the one Cursor of the model, as it appears in the append-listener list
Q == "q"

VARIABLES
    records,     \* Database: the live Records, oldest first
    last_id,     \* Database: the id of the newest Record ever appended
    listeners,   \* Database: the append-listener list, in registration order
    cursor,      \* Selection::cursor: [next |-> LightCursor::next, id |-> Cursor::id]
    end_id,      \* Selection::end_id
    filter,      \* Selection::filter: [site, since, until]
    follow,      \* Query: FOLLOW was requested
    state,       \* Query: "building", "streaming", "following", "ended"
    delivered,   \* history: ids of the Records sent as LOG_RECORD, in order
    callbacks,   \* history: number of append_callback invocations
    notified,    \* history: number of Cursor::OnAppend calls
    rejected,    \* history: number of Selection::OnAppend calls that returned false
    followed,    \* history: Follow() was invoked and nothing has unlinked the cursor since
    static,      \* history: no append since COMMIT
    client,      \* the command-line client: arguments, position, frames sent and received
    writer       \* the client's ResultWriter: mode, per_site_fd, last_site, what was written

vars == <<records, last_id, listeners, cursor, end_id, filter, follow, state,
          delivered, callbacks, notified, rejected, followed, static,
          client, writer>>

\* ------------------------------------------------------------ Record, ring

Ids(recs) == {recs[i].id : i \in 1..Len(recs)}

\* dereference a Record pointer; the pointer must not dangle
Deref(recs, p) == CHOOSE r \in {recs[i] : i \in 1..Len(recs)} : r.id = p

MinOf(S) == CHOOSE x \in S : \A y \in S : x <= y

MaxOf(S) == CHOOSE x \in S : \A y \in S : x >= y

\* Database::First()
First(recs) == IF recs = <<>> THEN 0 ELSE recs[1].id

\* the ring after inserting rec: when full, the oldest Record is evicted
Insert(recs, rec) ==
    IF Len(recs) = Capacity THEN Append(Tail(recs), rec) ELSE Append(recs, rec)

\* Database::TimeRange(since, until): the id-interval endpoints of the Records
\* whose timestamp lies in [since, until]; the upper side is open (null) when
\* until is the default
TimeRange(recs, since, until) ==
    LET in == {recs[i].id : i \in {j \in 1..Len(recs) :
                   since <= recs[j].ts /\ recs[j].ts <= until}}
    IN IF in = {} THEN [first |-> 0, second |-> 0]
       ELSE [first |-> MinOf(in),
             second |-> IF until = TMax THEN 0 ELSE MaxOf(in)]

\* ------------------------------------------------------------------ Filter

\* Filter::operator(): site is compared exactly, the timestamp against
\* [since, until]; absent fields match everything
Filter(f, rec) ==
    /\ f.site = NoSite \/ f.site = rec.site
    /\ f.since <= rec.ts
    /\ rec.ts <= f.until

\* ------------------------------------------------------------- LightCursor

\* LightCursor::Rewind(): position at the oldest live Record
LightRewind(recs) == First(recs)

\* LightCursor::operator++: the next live Record by id, null at the end
LightNext(recs, p) ==
    LET later == {i \in Ids(recs) : i > p}
    IN IF later = {} THEN 0 ELSE MinOf(later)

\* LightCursor::FixDeleted(expected_id): a positioned cursor whose Record is
\* no longer live moves to the oldest live Record
LightFixDeleted(recs, p, expected_id) ==
    IF p # 0 /\ expected_id \notin Ids(recs)
    THEN [ret |-> TRUE, next |-> First(recs)]
    ELSE [ret |-> FALSE, next |-> p]

\* ------------------------------------------------------------------ Cursor

is_linked(l) == \E i \in 1..Len(l) : l[i] = Q

\* intrusive list hook: unlink()
unlink(l) == SelectSeq(l, LAMBDA x : x # Q)

\* Cursor::FixDeleted
CursorFixDeleted(c, recs) ==
    LET r == LightFixDeleted(recs, c.next, c.id)
    IN IF r.ret
       THEN [ret |-> TRUE, cursor |-> [next |-> r.next, id |-> r.next]]
       ELSE [ret |-> FALSE, cursor |-> c]

\* Cursor::Rewind (the caller unlinks the hook with unlink())
CursorRewind(c, recs) ==
    LET n == LightRewind(recs)
    IN [next |-> n, id |-> IF n # 0 THEN n ELSE c.id]

\* Cursor::Follow with the position test dropped
CursorFollow_WhilePositioned(c, l) ==
    IF ~is_linked(l) THEN Append(l, Q) ELSE l

\* Cursor::Follow with the position test inverted
CursorFollow_Inverted(c, l) ==
    IF c.next # 0 /\ ~is_linked(l) THEN Append(l, Q) ELSE l

\* Cursor::Follow with the is_linked() test dropped
CursorFollow_NoLinkedCheck(c, l) ==
    IF c.next = 0 THEN Append(l, Q) ELSE l

\* Cursor::Follow: the listener list after the call
CursorFollow(c, l) ==
    IF c.next = 0 /\ ~is_linked(l) THEN Append(l, Q) ELSE l

\* Cursor::OnAppend without the append_callback() call
CursorOnAppend_NoCallback(c, rec) ==
    [cursor |-> [next |-> rec.id, id |-> rec.id], callbacks |-> 0]

\* Cursor::OnAppend: SetNext(record); id = record.GetId(); append_callback()
CursorOnAppend(c, rec) ==
    [cursor |-> [next |-> rec.id, id |-> rec.id], callbacks |-> 1]

\* Cursor::operator++ without the refresh of id
CursorInc_KeepsId(c, recs) ==
    [next |-> LightNext(recs, c.next), id |-> c.id]

\* Cursor::operator++
CursorInc(c, recs) ==
    LET n == LightNext(recs, c.next)
    IN [next |-> n, id |-> IF n # 0 THEN n ELSE c.id]

\* --------------------------------------------------------------- Selection

RECURSIVE SkipMismatches(_, _, _)
\* Selection::SkipMismatches
SkipMismatches(c, f, recs) ==
    IF c.next # 0 /\ ~Filter(f, Deref(recs, c.next))
    THEN SkipMismatches(CursorInc(c, recs), f, recs)
    ELSE c

\* Selection::FixDeleted without SkipMismatches()
SelectionFixDeleted_NoSkip(c, f, recs) == CursorFixDeleted(c, recs)

\* Selection::FixDeleted
SelectionFixDeleted(c, f, recs) ==
    LET r == CursorFixDeleted(c, recs)
    IN IF ~r.ret THEN r
       ELSE [ret |-> TRUE, cursor |-> SkipMismatches(r.cursor, f, recs)]

\* Selection::Rewind taking end_id from tr.first instead of tr.second
SelectionRewind_EndAtFirst(c, f, recs) ==
    IF f.since # TMin \/ f.until # TMax
    THEN LET tr == TimeRange(recs, f.since, f.until)
         IN IF tr.first = 0
            THEN [cursor |-> c, end_id |-> UINT64_MAX, unlinked |-> FALSE]
            ELSE [cursor |-> SkipMismatches([next |-> tr.first, id |-> c.id], f, recs),
                  end_id |-> tr.first,
                  unlinked |-> FALSE]
    ELSE [cursor |-> SkipMismatches(CursorRewind(c, recs), f, recs),
          end_id |-> UINT64_MAX,
          unlinked |-> TRUE]

\* Selection::Rewind falling back to cursor.Rewind() when the range is empty
SelectionRewind_RewindsOnEmptyRange(c, f, recs) ==
    IF f.since # TMin \/ f.until # TMax
    THEN LET tr == TimeRange(recs, f.since, f.until)
         IN IF tr.first = 0
            THEN [cursor |-> CursorRewind(c, recs), end_id |-> UINT64_MAX,
                  unlinked |-> TRUE]
            ELSE [cursor |-> SkipMismatches([next |-> tr.first, id |-> c.id], f, recs),
                  end_id |-> IF tr.second # 0 THEN tr.second ELSE UINT64_MAX,
                  unlinked |-> FALSE]
    ELSE [cursor |-> SkipMismatches(CursorRewind(c, recs), f, recs),
          end_id |-> UINT64_MAX,
          unlinked |-> TRUE]

\* Selection::Rewind: the cursor, end_id and whether the hook was unlinked
SelectionRewind(c, f, recs) ==
    IF f.since # TMin \/ f.until # TMax
    THEN LET tr == TimeRange(recs, f.since, f.until)
         IN IF tr.first = 0
            THEN [cursor |-> c, end_id |-> UINT64_MAX, unlinked |-> FALSE]
            ELSE [cursor |-> SkipMismatches([next |-> tr.first, id |-> c.id], f, recs),
                  end_id |-> IF tr.second # 0 THEN tr.second ELSE UINT64_MAX,
                  unlinked |-> FALSE]
    ELSE [cursor |-> SkipMismatches(CursorRewind(c, recs), f, recs),
          end_id |-> UINT64_MAX,
          unlinked |-> TRUE]

\* Selection::OnAppend without the Filter test
SelectionOnAppend_NoFilter(c, f, rec) ==
    LET r == CursorOnAppend(c, rec)
    IN [ret |-> TRUE, cursor |-> r.cursor, callbacks |-> r.callbacks, calls |-> 1]

\* Selection::OnAppend
SelectionOnAppend(c, f, rec) ==
    IF ~Filter(f, rec)
    THEN [ret |-> FALSE, cursor |-> c, callbacks |-> 0, calls |-> 0]
    ELSE LET r == CursorOnAppend(c, rec)
         IN [ret |-> TRUE, cursor |-> r.cursor, callbacks |-> r.callbacks, calls |-> 1]

\* Selection::operator bool
SelectionBool(c, e) == c.next # 0 /\ c.next <= e

\* Selection::operator++ without SkipMismatches()
SelectionInc_NoSkip(c, f, recs) == CursorInc(c, recs)

\* Selection::operator++
SelectionInc(c, f, recs) == SkipMismatches(CursorInc(c, recs), f, recs)

\* ------------------------------------------------------------------ client

\* std::numeric_limits<uint16_t>::max(), the largest PondHeader::size
UINT16_MAX == 65535

\* EXIT_SUCCESS
EXIT_SUCCESS == 0

\* EXIT_FAILURE
EXIT_FAILURE == 1

\* the process has not exited
Running == -1

\* filter_site == nullptr: no site= argument
NoSiteArg == -1

\* the lengths of the site= values tried
SiteLens == {0, 3, UINT16_MAX - 1, UINT16_MAX, UINT16_MAX + 1}

\* ToBE16(x) followed by the receiver's FromBE16: the value as a uint16_t
ToBE16(x) == x % (UINT16_MAX + 1)

\* PondClient::MakeId
MakeId(last) == ToBE16(last + 1)

\* PondClient::Send with the payload-size test off by one the other way
Send_AllowsOversized(id, command, size, io_ok) ==
    IF size > UINT16_MAX + 1
    THEN [ok |-> FALSE, why |-> "too_large", frame |-> <<>>]
    ELSE IF ~io_ok
    THEN [ok |-> FALSE, why |-> "send", frame |-> <<>>]
    ELSE [ok |-> TRUE, why |-> "",
          frame |-> <<[id |-> ToBE16(id), command |-> command,
                       size |-> ToBE16(size), payload |-> size]>>]

\* PondClient::Send: throws for a payload that is too large or when sendmsg
\* fails; otherwise one frame {id, command, size} followed by the payload
Send(id, command, size, io_ok) ==
    IF size >= UINT16_MAX
    THEN [ok |-> FALSE, why |-> "too_large", frame |-> <<>>]
    ELSE IF ~io_ok
    THEN [ok |-> FALSE, why |-> "send", frame |-> <<>>]
    ELSE [ok |-> TRUE, why |-> "",
          frame |-> <<[id |-> ToBE16(id), command |-> command,
                       size |-> ToBE16(size), payload |-> size]>>]

\* the receive loop of Query() with the id test dropped
OnDatagram_AnyId(d, id, socket) ==
    IF d.command = "NOP" THEN [exit |-> Running, why |-> "", out |-> <<>>]
    ELSE IF d.command = "ERROR" THEN [exit |-> EXIT_FAILURE, why |-> "error", out |-> <<>>]
    ELSE IF d.command = "END" THEN [exit |-> EXIT_SUCCESS, why |-> "end", out |-> <<>>]
    ELSE IF socket THEN [exit |-> Running, why |-> "", out |-> <<"packet">>]
    ELSE IF d.parses THEN [exit |-> Running, why |-> "", out |-> <<"line">>]
    ELSE [exit |-> Running, why |-> "", out |-> <<"stderr">>]

\* the receive loop of Query() letting the parse error escape
OnDatagram_ParseErrorEscapes(d, id, socket) ==
    IF d.id # id THEN [exit |-> Running, why |-> "", out |-> <<>>]
    ELSE IF d.command = "NOP" THEN [exit |-> Running, why |-> "", out |-> <<>>]
    ELSE IF d.command = "ERROR" THEN [exit |-> EXIT_FAILURE, why |-> "error", out |-> <<>>]
    ELSE IF d.command = "END" THEN [exit |-> EXIT_SUCCESS, why |-> "end", out |-> <<>>]
    ELSE IF socket THEN [exit |-> Running, why |-> "", out |-> <<"packet">>]
    ELSE IF d.parses THEN [exit |-> Running, why |-> "", out |-> <<"line">>]
    ELSE [exit |-> EXIT_FAILURE, why |-> "parse", out |-> <<>>]

\* one turn of the receive loop of Query() on the datagram d, and main()'s
\* exit status when the turn ends the run: frames of other ids are skipped,
\* NOP does nothing, ERROR throws, END returns, LOG_RECORD goes to the packet
\* socket or is parsed and printed, a parse error being reported on stderr
OnDatagram(d, id, socket) ==
    IF d.id # id THEN [exit |-> Running, why |-> "", out |-> <<>>]
    ELSE IF d.command = "NOP" THEN [exit |-> Running, why |-> "", out |-> <<>>]
    ELSE IF d.command = "ERROR" THEN [exit |-> EXIT_FAILURE, why |-> "error", out |-> <<>>]
    ELSE IF d.command = "END" THEN [exit |-> EXIT_SUCCESS, why |-> "end", out |-> <<>>]
    ELSE IF socket THEN [exit |-> Running, why |-> "", out |-> <<"packet">>]
    ELSE IF d.parses THEN [exit |-> Running, why |-> "", out |-> <<"line">>]
    ELSE [exit |-> Running, why |-> "", out |-> <<"stderr">>]

\* the commands Query() sends, by position, sending FOLLOW before FILTER_SITE
CommandAt_FollowFirst(pc, site, fol) ==
    IF pc = "query" THEN [send |-> TRUE, command |-> "QUERY", size |-> 0, to |-> "filter"]
    ELSE IF pc = "filter"
    THEN [send |-> fol, command |-> "FOLLOW", size |-> 0, to |-> "follow"]
    ELSE IF pc = "follow"
    THEN [send |-> site # NoSiteArg, command |-> "FILTER_SITE", size |-> site, to |-> "commit"]
    ELSE [send |-> TRUE, command |-> "COMMIT", size |-> 0, to |-> "recv"]

\* the commands Query() sends, by position: QUERY, FILTER_SITE if a site was
\* given, FOLLOW if --follow was given, COMMIT
CommandAt(pc, site, fol) ==
    IF pc = "query" THEN [send |-> TRUE, command |-> "QUERY", size |-> 0, to |-> "filter"]
    ELSE IF pc = "filter"
    THEN [send |-> site # NoSiteArg, command |-> "FILTER_SITE", size |-> site, to |-> "follow"]
    ELSE IF pc = "follow"
    THEN [send |-> fol, command |-> "FOLLOW", size |-> 0, to |-> "commit"]
    ELSE [send |-> TRUE, command |-> "COMMIT", size |-> 0, to |-> "recv"]

\* the server's query state machine for the client's id: QUERY begins
\* building, FILTER_* and FOLLOW need building, COMMIT starts streaming;
\* a command in the wrong state draws an ERROR
ServerOn(st, command) ==
    IF command = "QUERY"
    THEN [state |-> IF st = "none" THEN "building" ELSE st, error |-> st # "none"]
    ELSE IF command = "COMMIT"
    THEN [state |-> IF st = "building" THEN "streaming" ELSE st, error |-> st # "building"]
    ELSE [state |-> st, error |-> st # "building"]

\* the client before main() runs
ClientIdle ==
    [pc |-> "idle", site |-> NoSiteArg, follow |-> FALSE, badarg |-> FALSE,
     socket |-> FALSE, last_id |-> 0, id |-> 0, sent |-> <<>>,
     exit |-> Running, why |-> "", log |-> <<>>, last |-> <<>>, nrecv |-> 0,
     server |-> "none", wrong_state |-> FALSE]

\* ------------------------------------------------------------ ResultWriter

\* a ResultWriter that was not constructed
WriterIdle == [mode |-> "idle"]

\* ------------------------------------------------------------------- Init

Init ==
    /\ records = <<>>
    /\ last_id = 0
    /\ listeners = <<>>
    /\ cursor = [next |-> 0, id |-> 0]
    /\ end_id = UINT64_MAX
    /\ filter = [site |-> NoSite, since |-> TMin, until |-> TMax]
    /\ follow = FALSE
    /\ state = "building"
    /\ delivered = <<>>
    /\ callbacks = 0
    /\ notified = 0
    /\ rejected = 0
    /\ followed = FALSE
    /\ static = FALSE
    /\ client = ClientIdle
    /\ writer = WriterIdle

\* ---------------------------------------------------------------- actions

\* Database::Emplace: assign the id, insert (evicting the oldest when full),
\* then notify the append listeners: the list is cleared and each listener
\* is handed the Record through Selection::OnAppend; a listener whose Filter
\* rejects the Record is registered again with Follow().  The run is observed
\* for the lifetime of the query.
Emplace(site, ts) ==
    /\ last_id < MaxAppends
    /\ state # "ended"
    /\ LET rec == [id |-> last_id + 1, site |-> site, ts |-> ts]
       IN /\ records' = Insert(records, rec)
          /\ last_id' = rec.id
          /\ static' = FALSE
          /\ IF is_linked(listeners)
             THEN LET r == SelectionOnAppend(cursor, filter, rec)
                  IN /\ cursor' = r.cursor
                     /\ callbacks' = callbacks + r.callbacks
                     /\ notified' = notified + r.calls
                     /\ rejected' = IF r.ret THEN rejected ELSE rejected + 1
                     /\ IF r.ret
                        THEN /\ listeners' = unlink(listeners)
                             /\ followed' = FALSE
                             /\ state' = "streaming"
                        ELSE /\ listeners' = CursorFollow(cursor, unlink(listeners))
                             /\ followed' = TRUE
                             /\ state' = state
             ELSE UNCHANGED <<cursor, callbacks, notified, rejected, listeners, followed, state>>
    /\ UNCHANGED <<end_id, filter, follow, delivered>>

\* FILTER_SITE while building
FilterSite(s) ==
    /\ state = "building"
    /\ filter' = [filter EXCEPT !.site = s]
    /\ UNCHANGED <<records, last_id, listeners, cursor, end_id, follow, state,
                   delivered, callbacks, notified, rejected, followed, static>>

\* the time-range filter commands while building
FilterTime(since, until) ==
    /\ state = "building"
    /\ filter' = [filter EXCEPT !.since = since, !.until = until]
    /\ UNCHANGED <<records, last_id, listeners, cursor, end_id, follow, state,
                   delivered, callbacks, notified, rejected, followed, static>>

\* FOLLOW while building
MarkFollow ==
    /\ state = "building"
    /\ follow' = TRUE
    /\ UNCHANGED <<records, last_id, listeners, cursor, end_id, filter, state,
                   delivered, callbacks, notified, rejected, followed, static>>

\* COMMIT while building: Selection::Rewind(), the query starts streaming
Commit ==
    /\ state = "building"
    /\ LET r == SelectionRewind(cursor, filter, records)
       IN /\ cursor' = r.cursor
          /\ end_id' = r.end_id
          /\ listeners' = IF r.unlinked THEN unlink(listeners) ELSE listeners
          /\ followed' = IF r.unlinked THEN FALSE ELSE followed
    /\ state' = "streaming"
    /\ static' = TRUE
    /\ UNCHANGED <<records, last_id, filter, follow, delivered, callbacks, notified, rejected>>

RECURSIVE DrainLoop(_, _, _, _, _, _)
\* the send loop of the writable handler: while the Selection is truthy and
\* the buffer has room, send the current Record and advance
DrainLoop(c, e, f, recs, n, out) ==
    IF SelectionBool(c, e) /\ n > 0
    THEN DrainLoop(SelectionInc(c, f, recs), e, f, recs, n - 1, Append(out, c.next))
    ELSE [cursor |-> c, out |-> out]

\* the Connection's writable-ready handler with room for n frames:
\* Selection::FixDeleted(), the send loop, and when the Selection is empty
\* either Follow() (follow mode) or END
Drain(n) ==
    /\ state \in {"streaming", "following"}
    /\ LET fx == SelectionFixDeleted(cursor, filter, records)
           d == DrainLoop(fx.cursor, end_id, filter, records, n, delivered)
       IN /\ cursor' = d.cursor
          /\ delivered' = d.out
          /\ IF SelectionBool(d.cursor, end_id)
             THEN UNCHANGED <<listeners, state, followed>>
             ELSE IF follow
                  THEN /\ listeners' = CursorFollow(d.cursor, listeners)
                       /\ followed' = TRUE
                       /\ state' = "following"
                  ELSE /\ listeners' = unlink(listeners)
                       /\ followed' = FALSE
                       /\ state' = "ended"
    /\ UNCHANGED <<records, last_id, end_id, filter, follow, callbacks, notified, rejected, static>>

\* CANCEL: unlink the cursor, send END, destroy the query
Cancel ==
    /\ state \in {"streaming", "following"}
    /\ listeners' = unlink(listeners)
    /\ followed' = FALSE
    /\ state' = "ended"
    /\ UNCHANGED <<records, last_id, cursor, end_id, filter, follow, delivered,
                   callbacks, notified, rejected, static>>

Next ==
    \/ \E s \in Sites, t \in Times : Emplace(s, t) /\ UNCHANGED <<client, writer>>
    \/ \E s \in FilterSites : FilterSite(s) /\ UNCHANGED <<client, writer>>
    \/ \E since \in {TMin} \cup Times, until \in Times \cup {TMax} :
          FilterTime(since, until) /\ UNCHANGED <<client, writer>>
    \/ MarkFollow /\ UNCHANGED <<client, writer>>
    \/ Commit /\ UNCHANGED <<client, writer>>
    \/ \E n \in 0..MaxBatch : Drain(n) /\ UNCHANGED <<client, writer>>
    \/ Cancel /\ UNCHANGED <<client, writer>>

Spec == Init /\ [][Next]_vars

\* ---------------------------------------------------------- client actions

\* number of frames the client receives in a run
MaxFrames == 3

\* the query-engine variables
engine == <<records, last_id, listeners, cursor, end_id, filter, follow, state,
            delivered, callbacks, notified, rejected, followed, static>>

\* the responses the server may send: any id, any command, a LOG_RECORD
\* payload that parses or not
Datagrams(id) ==
    {[id |-> i, command |-> c, parses |-> TRUE] :
        i \in {id, id + 1}, c \in {"NOP", "ERROR", "END", "LOG_RECORD"}}
    \cup {[id |-> i, command |-> "LOG_RECORD", parses |-> FALSE] : i \in {id, id + 1}}

\* the query engine as constructed, untouched by the client program's run
InitEngine ==
    /\ records = <<>>
    /\ last_id = 0
    /\ listeners = <<>>
    /\ cursor = [next |-> 0, id |-> 0]
    /\ end_id = UINT64_MAX
    /\ filter = [site |-> NoSite, since |-> TMin, until |-> TMax]
    /\ follow = FALSE
    /\ state = "building"
    /\ delivered = <<>>
    /\ callbacks = 0
    /\ notified = 0
    /\ rejected = 0
    /\ followed = FALSE
    /\ static = FALSE

InitClient ==
    /\ InitEngine
    /\ writer = WriterIdle
    /\ \E site \in {NoSiteArg} \cup SiteLens, fol \in BOOLEAN, bad \in BOOLEAN,
          sock \in BOOLEAN :
          client = [ClientIdle EXCEPT !.pc = "args", !.site = site, !.follow = fol,
                                      !.badarg = bad, !.socket = sock]

\* Query(): the argument loop, then PondClient's constructor and MakeId();
\* an unrecognized argument throws and main() exits with EXIT_FAILURE
ClientStart ==
    /\ client.pc = "args"
    /\ client' = IF client.badarg
                 THEN [client EXCEPT !.pc = "exit", !.exit = EXIT_FAILURE, !.why = "arg"]
                 ELSE [client EXCEPT !.pc = "query",
                                     !.last_id = MakeId(client.last_id),
                                     !.id = MakeId(client.last_id)]
    /\ UNCHANGED engine
    /\ UNCHANGED writer

\* Query(): the next client.Send(); a throwing Send ends main() with
\* EXIT_FAILURE; the server handles each frame in the order sent
ClientSend(io_ok) ==
    /\ client.pc \in {"query", "filter", "follow", "commit"}
    /\ LET c == CommandAt(client.pc, client.site, client.follow)
           r == Send(client.id, c.command, c.size, io_ok)
       IN IF ~c.send
          THEN client' = [client EXCEPT !.pc = c.to]
          ELSE IF ~r.ok
          THEN client' = [client EXCEPT !.pc = "exit", !.exit = EXIT_FAILURE,
                                        !.why = r.why]
          ELSE LET sv == ServerOn(client.server, c.command)
               IN client' = [client EXCEPT !.pc = c.to,
                                           !.sent = client.sent \o r.frame,
                                           !.server = sv.state,
                                           !.wrong_state = client.wrong_state \/ sv.error]
    /\ UNCHANGED engine
    /\ UNCHANGED writer

\* Query(): client.Receive() returned the datagram d
ClientReceive(d) ==
    /\ client.pc = "recv"
    /\ client.nrecv < MaxFrames
    /\ LET r == OnDatagram(d, client.id, client.socket)
       IN client' = [client EXCEPT !.pc = IF r.exit = Running THEN "recv" ELSE "exit",
                                   !.exit = r.exit,
                                   !.why = r.why,
                                   !.log = client.log \o r.out,
                                   !.last = <<d>>,
                                   !.nrecv = client.nrecv + 1]
    /\ UNCHANGED engine
    /\ UNCHANGED writer

\* Query(): client.Receive() threw: recv failed, the stream ended, or the
\* header came short
ClientReceiveFails(how) ==
    /\ client.pc = "recv"
    /\ client.nrecv < MaxFrames
    /\ client' = [client EXCEPT !.pc = "exit", !.exit = EXIT_FAILURE, !.why = how,
                                !.last = <<>>, !.nrecv = client.nrecv + 1]
    /\ UNCHANGED engine
    /\ UNCHANGED writer

NextClient ==
    \/ ClientStart
    \/ \E io_ok \in BOOLEAN : ClientSend(io_ok)
    \/ \E d \in Datagrams(client.id) : ClientReceive(d)
    \/ \E how \in {"recv_failed", "premature_end", "short_receive"} : ClientReceiveFails(how)

SpecClient == InitClient /\ [][NextClient]_vars

\* ------------------------------------------------------------ ResultWriter

\* longest site string tried for SanitizeSiteName
MaxSiteLen == 3

\* number of ResultWriter::Write calls in a run
MaxWrites == 3

\* sizeof(ResultWriter::last_site), scaled down
LastSiteSize == 3

\* a null const char *
nullptr == <<"nullptr">>

\* UniqueFileDescriptor{}: no file is open
Undefined == <<"undefined">>

\* the characters site strings are made of
Chars == {"a", "Z", "7", "_", "/", "."}

\* IsAlphaNumericASCII
IsAlphaNumericASCII(ch) == ch \in {"a", "Z", "7"}

\* IsSafeSiteChar
IsSafeSiteChar(ch) == IsAlphaNumericASCII(ch)

\* the copy loop of SanitizeSiteName: site is what is left to read, p what
\* was written to the buffer
RECURSIVE SanitizeLoop(_, _)
SanitizeLoop(site, p) ==
    IF site = <<>>
    THEN p
    ELSE SanitizeLoop(Tail(site),
                      Append(p, IF IsSafeSiteChar(Head(site)) THEN Head(site) ELSE "_"))

\* SanitizeSiteName accepting a site as long as the buffer
SanitizeSiteName_OffByOne(buffer_size, site) ==
    IF Len(site) = 0 \/ Len(site) > buffer_size
    THEN nullptr
    ELSE SanitizeLoop(site, <<>>)

\* SanitizeSiteName: nullptr for an empty site or one that does not fit the
\* buffer with its terminator, else the site with unsafe characters replaced
SanitizeSiteName(buffer_size, site) ==
    IF Len(site) = 0 \/ Len(site) >= buffer_size
    THEN nullptr
    ELSE SanitizeLoop(site, <<>>)

\* the per-site branch of Write throwing for a record without a site
WritePerSite_ThrowsOnNoSite(w, d, open_ok, write_ok) ==
    IF ~d.parses THEN [w EXCEPT !.result = "failed"]
    ELSE IF d.site = nullptr THEN [w EXCEPT !.result = "failed"]
    ELSE LET filename == SanitizeSiteName(LastSiteSize, d.site)
             reopen == w.per_site_fd = Undefined \/ w.last_site # filename
             o == IF reopen
                  THEN [w EXCEPT !.per_site_fd = filename, !.last_site = filename,
                                 !.opens = w.opens + 1]
                  ELSE w
         IN IF filename = nullptr THEN [w EXCEPT !.result = "dropped"]
            ELSE IF reopen /\ ~open_ok THEN [w EXCEPT !.result = "failed"]
            ELSE IF ~write_ok THEN [o EXCEPT !.result = "failed"]
            ELSE [o EXCEPT !.result = "written",
                           !.files = Append(w.files, [site |-> d.site, file |-> o.per_site_fd])]

\* the per-site branch of Write reopening only when no file is open
WritePerSite_KeepsOpenFile(w, d, open_ok, write_ok) ==
    IF ~d.parses THEN [w EXCEPT !.result = "failed"]
    ELSE IF d.site = nullptr THEN [w EXCEPT !.result = "dropped"]
    ELSE LET filename == SanitizeSiteName(LastSiteSize, d.site)
             reopen == w.per_site_fd = Undefined
             o == IF reopen
                  THEN [w EXCEPT !.per_site_fd = filename, !.last_site = filename,
                                 !.opens = w.opens + 1]
                  ELSE w
         IN IF filename = nullptr THEN [w EXCEPT !.result = "dropped"]
            ELSE IF reopen /\ ~open_ok THEN [w EXCEPT !.result = "failed"]
            ELSE IF ~write_ok THEN [o EXCEPT !.result = "failed"]
            ELSE [o EXCEPT !.result = "written",
                           !.files = Append(w.files, [site |-> d.site, file |-> o.per_site_fd])]

\* ResultWriter::Write with per_site_append defined: parse the payload
\* (throws if malformed), return for a record without a site or without a
\* sanitized name, open the site's file unless it is the open one (throws if
\* the open fails), append the line (throws if the write fails)
WritePerSite(w, d, open_ok, write_ok) ==
    IF ~d.parses THEN [w EXCEPT !.result = "failed"]
    ELSE IF d.site = nullptr THEN [w EXCEPT !.result = "dropped"]
    ELSE LET filename == SanitizeSiteName(LastSiteSize, d.site)
             reopen == w.per_site_fd = Undefined \/ w.last_site # filename
             o == IF reopen
                  THEN [w EXCEPT !.per_site_fd = filename, !.last_site = filename,
                                 !.opens = w.opens + 1]
                  ELSE w
         IN IF filename = nullptr THEN [w EXCEPT !.result = "dropped"]
            ELSE IF reopen /\ ~open_ok THEN [w EXCEPT !.result = "failed"]
            ELSE IF ~write_ok THEN [o EXCEPT !.result = "failed"]
            ELSE [o EXCEPT !.result = "written",
                           !.files = Append(w.files, [site |-> d.site, file |-> o.per_site_fd])]

\* ResultWriter::Write without per_site_append: the raw payload to a packet
\* socket, header and payload to stdout in raw mode, else the parsed record
\* as one line on stdout
WriteStdout(w, d, write_ok) ==
    IF w.mode = "socket"
    THEN [w EXCEPT !.result = "written",
                   !.files = Append(w.files, [site |-> d.site, file |-> <<"socket">>])]
    ELSE IF w.mode = "raw"
    THEN IF write_ok
         THEN [w EXCEPT !.result = "written",
                        !.files = Append(w.files, [site |-> d.site, file |-> <<"raw">>])]
         ELSE [w EXCEPT !.result = "failed"]
    ELSE IF d.parses /\ write_ok
    THEN [w EXCEPT !.result = "written",
                   !.files = Append(w.files, [site |-> d.site, file |-> <<"stdout">>])]
    ELSE [w EXCEPT !.result = "failed"]

\* ResultWriter::Write
Write(w, d, open_ok, write_ok) ==
    IF w.mode = "per_site"
    THEN WritePerSite(w, d, open_ok, write_ok)
    ELSE WriteStdout(w, d, write_ok)

\* the site strings of up to MaxSiteLen characters
SiteStrings == UNION {[1..n -> Chars] : n \in 0..MaxSiteLen}

\* the sites of the records written: none, empty, too long, plain, and
\* sites whose sanitized names coincide
WriteSites ==
    {nullptr, <<>>, <<"a">>, <<"Z", "7">>, <<"a", "/">>, <<"a", ".">>, <<".", ".">>,
     <<"a", "a", "a">>}

\* the payloads handed to Write: malformed, or a record with a site or none
Payloads ==
    {[parses |-> FALSE, site |-> nullptr]}
    \cup {[parses |-> TRUE, site |-> x] : x \in WriteSites}

\* one call of SanitizeSiteName on any site string and buffer size
InitSanitize ==
    /\ InitEngine
    /\ client = ClientIdle
    /\ \E x \in SiteStrings, b \in 1..(MaxSiteLen + 1) :
          writer = [mode |-> "sanitize", site |-> x, buffer_size |-> b,
                    done |-> FALSE, name |-> nullptr]

SanitizeCall ==
    /\ writer.mode = "sanitize"
    /\ ~writer.done
    /\ writer' = [writer EXCEPT !.done = TRUE,
                                !.name = SanitizeSiteName(writer.buffer_size, writer.site)]
    /\ UNCHANGED engine
    /\ UNCHANGED client

NextSanitize == SanitizeCall

SpecSanitize == InitSanitize /\ [][NextSanitize]_vars

\* ResultWriter's constructor: per-site mode if a directory was given, else
\* a packet socket on stdout, raw frames, or lines
InitWriter ==
    /\ InitEngine
    /\ client = ClientIdle
    /\ \E m \in {"per_site", "socket", "raw", "line"} :
          writer = [mode |-> m, per_site_fd |-> Undefined, last_site |-> <<>>,
                    files |-> <<>>, opens |-> 0, calls |-> 0, result |-> "none",
                    in |-> [d |-> [parses |-> FALSE, site |-> nullptr],
                            open_ok |-> TRUE, write_ok |-> TRUE]]

\* one call of ResultWriter::Write; a call that threw may be followed by
\* another
WriteCall(d, open_ok, write_ok) ==
    /\ writer.mode \in {"per_site", "socket", "raw", "line"}
    /\ writer.calls < MaxWrites
    /\ writer' = [Write(writer, d, open_ok, write_ok) EXCEPT
                     !.calls = writer.calls + 1,
                     !.in = [d |-> d, open_ok |-> open_ok, write_ok |-> write_ok]]
    /\ UNCHANGED engine
    /\ UNCHANGED client

NextWriter == \E d \in Payloads, open_ok \in BOOLEAN, write_ok \in BOOLEAN :
                  WriteCall(d, open_ok, write_ok)

SpecWriter == InitWriter /\ [][NextWriter]_vars

\* ------------------------------------------------------------------ claims

\* the ids in a sequence of ids
Range(seq) == {seq[i] : i \in 1..Len(seq)}

\* the ids of S as an ascending sequence
RECURSIVE Ascending(_)
Ascending(S) ==
    IF S = {} THEN <<>> ELSE <<MinOf(S)>> \o Ascending(S \ {MinOf(S)})

\* the live Records the Selection is to yield: accepted by the Filter, id <= end_id
Matching(recs, f, e) ==
    {i \in Ids(recs) : Filter(f, Deref(recs, i)) /\ i <= e}

\* C1: the ids the Selection presents for delivery are strictly ascending
\* under every interleaving of appends (with evictions) and the query's
\* steps: no id is delivered twice and none after a larger one.
C1_StrictlyAscending ==
    \A i, j \in 1..Len(delivered) : i < j => delivered[i] < delivered[j]

\* C1 witness: the ring wrapped during the scan (the oldest Records are
\* evicted) and the scan went on through three Records without a gap
C1_Witness ==
    /\ Len(delivered) >= 3
    /\ last_id > Capacity
    /\ delivered[1] \notin Ids(records)
    /\ \A i \in 1..(Len(delivered) - 1) : delivered[i + 1] = delivered[i] + 1

\* C2: over a Database that has not changed since Rewind, the scan visits
\* exactly the live Records accepted by the Filter with id <= end_id, once
\* each and in ascending id order: what was delivered so far is a prefix of
\* that sequence, a truthy Selection rests on its next element, and a falsy
\* Selection has delivered all of it.
C2_StaticScan ==
    (static /\ state # "building") =>
        LET want == Ascending(Matching(records, filter, end_id))
            n == Len(delivered)
            at == cursor
        IN /\ n <= Len(want)
           /\ delivered = SubSeq(want, 1, n)
           /\ SelectionBool(at, end_id) <=> n < Len(want)
           /\ SelectionBool(at, end_id) => at.next = want[n + 1]
           /\ SelectionBool(at, end_id) <=> (at.next # 0 /\ at.next <= end_id)

\* C2 witness: a finished scan of an unchanged Database under a site filter
\* and a finite end_id that delivered some Records and passed over others
C2_Witness ==
    /\ static
    /\ state = "ended"
    /\ ~SelectionBool(cursor, end_id)
    /\ end_id # UINT64_MAX
    /\ filter.site # NoSite
    /\ Len(delivered) >= 2
    /\ Len(delivered) < Len(records)

C4_NeverPositionedAndLinked ==
    ~(cursor.next # 0 /\ is_linked(listeners))

\* C4 witness: the cursor is linked again after OnAppend had positioned it
\* and the Records were drained
C4_Witness ==
    /\ is_linked(listeners)
    /\ callbacks >= 1
    /\ delivered # <<>>
    /\ end_id # UINT64_MAX

\* C5: whenever the Cursor is positioned, its persistent id is the id of the
\* Record it is positioned on.
C5_IdIsCurrent ==
    cursor.next # 0 => cursor.id = cursor.next

\* what an append does to a linked listener: a Record the Filter rejects
\* positions and delivers nothing, fires no callback and leaves the cursor
\* registered; a Record the Filter accepts positions the cursor on it and
\* fires the callback once, and the Record was not delivered before
AppendToListener ==
    (last_id' = last_id + 1 /\ is_linked(listeners)) =>
        LET rec == Deref(records', last_id')
        IN IF Filter(filter, rec)
           THEN /\ cursor' = [next |-> rec.id, id |-> rec.id]
                /\ callbacks' = callbacks + 1
                /\ rejected' = rejected
                /\ state' = "streaming"
                /\ rec.id \notin Range(delivered')
           ELSE /\ cursor' = cursor
                /\ delivered' = delivered
                /\ callbacks' = callbacks
                /\ rejected' = rejected + 1
                /\ is_linked(listeners')
                /\ state' = state

\* the accepted Record is presented for delivery: the Selection is truthy on it
AcceptedIsPresented ==
    (last_id' = last_id + 1 /\ is_linked(listeners)
       /\ Filter(filter, Deref(records', last_id'))) =>
        SelectionBool(cursor', end_id')

C7_LinkedIff ==
    is_linked(listeners) <=> (cursor.next = 0 /\ followed)

\* C7 witness: Follow() was invoked, an append was then delivered, and the
\* cursor is positioned and no longer linked
C7_Witness ==
    /\ follow
    /\ ~followed
    /\ ~is_linked(listeners)
    /\ cursor.next # 0
    /\ callbacks >= 1
    /\ state = "streaming"

\* the number of times the Cursor is in a listener list
Links(l) == Cardinality({i \in 1..Len(l) : l[i] = Q})

\* C8: Follow links the cursor exactly when it is neither positioned nor
\* linked; otherwise the list is unchanged; the cursor is never linked
\* twice; Follow(); Follow() leaves the list as one Follow() does, and a
\* handler that calls Follow() on a following query leaves its list alone.
C8_FollowIdempotent ==
    /\ [](LET once == CursorFollow(cursor, listeners)
              twice == CursorFollow(cursor, once)
          IN /\ Links(listeners) <= 1
             /\ Links(once) <= 1
             /\ twice = once
             /\ (cursor.next = 0 /\ Links(listeners) = 0) => once = Append(listeners, Q)
             /\ (cursor.next # 0 \/ Links(listeners) = 1) => once = listeners)
    /\ [][(state = "following" /\ state' = "following" /\ last_id' = last_id
             /\ is_linked(listeners)) =>
            (listeners' = listeners /\ cursor' = cursor)]_vars

\* C8 witness: the query is following and linked, where the writable handler
\* calls Follow() on the linked cursor once more
C8_Witness ==
    /\ state = "following"
    /\ followed
    /\ Links(listeners) = 1
    /\ rejected >= 1

\* C9: every Cursor::OnAppend call acts on an unpositioned cursor taken off
\* the list, positions it on the appended Record, stores its id and fires
\* the append callback exactly once in the same step; the callback fires
\* once for each append delivered to a linked listener and never for an
\* append made while the cursor was not linked.
C9_CallbackOncePerAppend ==
    [][/\ notified' - notified \in {0, 1}
       /\ callbacks' - callbacks = notified' - notified
       /\ notified' = notified + 1 =>
            /\ last_id' = last_id + 1
            /\ is_linked(listeners)
            /\ cursor.next = 0
            /\ cursor' = [next |-> last_id', id |-> last_id']
            /\ ~is_linked(listeners')
       /\ (last_id' = last_id + 1 /\ is_linked(listeners)
             /\ Filter(filter, Deref(records', last_id'))) => notified' = notified + 1
       /\ (last_id' = last_id + 1 /\ ~is_linked(listeners)) => callbacks' = callbacks]_vars

\* C9 witness: two appends were delivered to the listener, and one append
\* was made while it was not linked
C9_Witness ==
    /\ notified = 2
    /\ callbacks = 2
    /\ rejected = 0
    /\ last_id = 3

\* the Records whose timestamp lies in [since, until]
InRange(recs, since, until) ==
    {i \in Ids(recs) : since <= Deref(recs, i).ts /\ Deref(recs, i).ts <= until}

\* C10: Rewind with a non-default time range that holds Records seeds the
\* cursor at the first of them (and skips mismatches from there), sets
\* end_id to the id of the last of them when until is set and leaves it at
\* UINT64_MAX when until is the default; with the default until every
\* Record appended later has id <= end_id.
C10_TimeRangeRewind ==
    /\ []((state # "building" /\ filter.until = TMax) =>
            (end_id = UINT64_MAX /\ \A i \in Ids(records) : i <= end_id))
    /\ [][(state = "building" /\ state' = "streaming"
             /\ (filter.since # TMin \/ filter.until # TMax)
             /\ InRange(records, filter.since, filter.until) # {}) =>
            LET in == InRange(records, filter.since, filter.until)
                from == {i \in Ids(records) :
                           i >= MinOf(in) /\ Filter(filter, Deref(records, i))}
            IN /\ end_id' = (IF filter.until = TMax THEN UINT64_MAX ELSE MaxOf(in))
               /\ cursor'.next = (IF from = {} THEN 0 ELSE MinOf(from))]_vars

\* C10 witness: a query with only a since bound was seeded past an older
\* Record and then received a Record appended after the Rewind
C10_Witness ==
    /\ filter.since # TMin
    /\ filter.until = TMax
    /\ end_id = UINT64_MAX
    /\ callbacks >= 1
    /\ Len(delivered) >= 2
    /\ delivered[1] > 1
    /\ delivered[Len(delivered)] = last_id

\* no Record qualifies for Rewind: the Database is empty, or the Filter
\* carries a time range that holds no Record (as every range with
\* since > until does)
NothingQualifies(recs, f) ==
    \/ recs = <<>>
    \/ /\ f.since # TMin \/ f.until # TMax
       /\ \A i \in Ids(recs) : ~(f.since <= Deref(recs, i).ts /\ Deref(recs, i).ts <= f.until)

\* C11: when no Record qualifies (empty Database, empty time range, or
\* since > until), Rewind leaves the Selection empty: falsy, cursor
\* unpositioned, end_id still UINT64_MAX; checked while the Database is as
\* Rewind saw it.
C11_RewindEmpty ==
    /\ (static /\ state # "building" /\ NothingQualifies(records, filter)) =>
          /\ cursor.next = 0
          /\ end_id = UINT64_MAX
          /\ ~SelectionBool(cursor, end_id)
          /\ delivered = <<>>
    /\ (static /\ state # "building" /\ filter.since > filter.until) =>
          NothingQualifies(records, filter)

\* C11 witness: Rewind ran with since > until on a Database that holds Records
C11_Witness ==
    /\ static
    /\ state = "streaming"
    /\ filter.since > filter.until
    /\ Len(records) >= 2
    /\ cursor.next = 0

\* C19: the assertions guarding append delivery hold: a linked cursor (the
\* only one Selection::OnAppend is invoked for) has a falsy Selection, is
\* unpositioned and is in the list once, so that it is unlinked when
\* Cursor::OnAppend runs; a cursor resting on a Record beyond a finite end_id
\* is not linked and Follow() does not link it.
C19_AssertionsHold ==
    /\ is_linked(listeners) =>
          /\ ~SelectionBool(cursor, end_id)
          /\ cursor.next = 0
          /\ ~is_linked(unlink(listeners))
          /\ Links(listeners) = 1
    /\ (cursor.next # 0 /\ cursor.next > end_id) =>
          /\ ~is_linked(listeners)
          /\ ~is_linked(CursorFollow(cursor, listeners))
    /\ notified = callbacks

\* C19 witness: a following query rests on a Record beyond its finite end_id
\* while a later append went by without reaching it
C19_Witness ==
    /\ follow
    /\ state = "following"
    /\ end_id # UINT64_MAX
    /\ cursor.next # 0
    /\ cursor.next > end_id
    /\ last_id > cursor.next
    /\ ~is_linked(listeners)

\* C20: after Rewind the persistent id never decreases, and it is strictly
\* greater whenever the cursor moves to a different Record.
C20_IdMonotonic ==
    [][state # "building" =>
         /\ cursor'.id >= cursor.id
         /\ (cursor'.next # 0 /\ cursor'.next # cursor.next) => cursor'.id > cursor.id
         /\ (cursor'.next # 0 /\ cursor'.next # cursor.next) => cursor'.id = cursor'.next]_vars

\* C20 witness: the id has grown through operator++, FixDeleted after an
\* eviction, and OnAppend
C20_Witness ==
    /\ Len(delivered) >= 2
    /\ callbacks >= 1
    /\ cursor.id = last_id
    /\ last_id > Capacity
    /\ delivered[1] \notin Ids(records)

\* ---------------------------------------------------------- client claims

\* the commands of the frames sent so far
Commands(sent) == [i \in 1..Len(sent) |-> sent[i].command]

\* a is a prefix of b
IsPrefix(a, b) == Len(a) <= Len(b) /\ \A i \in 1..Len(a) : a[i] = b[i]

\* the command sequence the claim expects for the arguments given
ExpectedCommands(site, fol) ==
    <<"QUERY">>
    \o (IF site # NoSiteArg THEN <<"FILTER_SITE">> ELSE <<>>)
    \o (IF fol THEN <<"FOLLOW">> ELSE <<>>)
    \o <<"COMMIT">>

\* the step received a datagram (client'.last) in the receive loop
Received == client'.nrecv = client.nrecv + 1 /\ client'.last # <<>>

\* C12: PondClient::Send throws "Payload is too large" if and only if the
\* payload is larger than 65535 bytes; every payload of 0..65535 bytes is sent
\* as one frame whose 16-bit size field equals the payload length.
C12_SendUpTo65535 ==
    /\ \A i \in 1..Len(client.sent) : client.sent[i].size = client.sent[i].payload
    /\ client.why = "too_large" <=>
          (client.pc = "exit" /\ client.site > UINT16_MAX /\ Commands(client.sent) = <<"QUERY">>)

\* C13: the query run exits with status 0 exactly when an END frame with the
\* query's own id was received; an ERROR frame with the query's id, a receive
\* failure, a premature end of stream or a short header ends it with a
\* nonzero status; a frame with another id and a NOP frame leave the run in
\* the receive loop with its outcome and output unchanged.
C13_ExitStatus ==
    /\ [](client.exit = EXIT_SUCCESS <=>
            /\ client.pc = "exit"
            /\ client.last # <<>>
            /\ client.last[1].id = client.id
            /\ client.last[1].command = "END")
    /\ []((client.last # <<>> /\ client.last[1].id = client.id
              /\ client.last[1].command = "ERROR") =>
            (client.pc = "exit" /\ client.exit \notin {Running, EXIT_SUCCESS}))
    /\ [](client.why \in {"recv_failed", "premature_end", "short_receive"} =>
            (client.pc = "exit" /\ client.exit \notin {Running, EXIT_SUCCESS}))
    /\ [][(Received /\ (client'.last[1].id # client.id \/ client'.last[1].command = "NOP")) =>
            /\ client'.pc = "recv"
            /\ client'.exit = Running
            /\ client'.why = client.why
            /\ client'.log = client.log]_vars

\* an END with the query's id ends the run with status 0 after two frames
\* that were skipped (another id, or NOP)
C13_Witness ==
    /\ client.exit = EXIT_SUCCESS
    /\ client.nrecv = MaxFrames
    /\ client.log = <<>>

\* C14: whatever the arguments, every frame the client sends carries the one
\* id of the query, the commands sent are QUERY, FILTER_SITE only if site= was
\* given, FOLLOW only if --follow was given, COMMIT, in this order, the whole
\* sequence once the receive loop is reached, and nothing after COMMIT; each
\* command reaches the server in the state that accepts it, so no wrong-state
\* ERROR is drawn, and the query is streaming once the sequence is complete.
C14_CommandOrder ==
    /\ \A i \in 1..Len(client.sent) : client.sent[i].id = client.id
    /\ IsPrefix(Commands(client.sent), ExpectedCommands(client.site, client.follow))
    /\ (client.pc = "recv" \/ client.nrecv > 0) =>
          /\ Commands(client.sent) = ExpectedCommands(client.site, client.follow)
          /\ client.server = "streaming"
    /\ (client.sent # <<>> /\ client.sent[Len(client.sent)].command # "COMMIT") =>
          client.server = "building"
    /\ ~client.wrong_state

\* a query with site= and --follow has sent all four commands
C14_Witness ==
    /\ client.pc = "recv"
    /\ client.site # NoSiteArg
    /\ client.follow
    /\ Len(client.sent) = 4
    /\ client.server = "streaming"

\* C16: when stdout is not a packet socket, a LOG_RECORD frame of the query
\* whose payload does not parse is reported on stderr and the receive loop
\* goes on; after such a report a valid record is still printed and END
\* still ends the run with status 0.
C16_ParseErrorContinues ==
    [][(Received /\ ~client.socket /\ client'.last[1].id = client.id) =>
          /\ (client'.last[1].command = "LOG_RECORD" /\ ~client'.last[1].parses) =>
                /\ client'.log = Append(client.log, "stderr")
                /\ client'.pc = "recv"
                /\ client'.exit = Running
          /\ ("stderr" \in Range(client.log) /\ client'.last[1].command = "LOG_RECORD"
                 /\ client'.last[1].parses) =>
                /\ client'.log = Append(client.log, "line")
                /\ client'.pc = "recv"
          /\ ("stderr" \in Range(client.log) /\ client'.last[1].command = "END") =>
                /\ client'.exit = EXIT_SUCCESS
                /\ client'.log = client.log]_vars

\* a record that did not parse, then a record printed, then a clean END
C16_Witness ==
    /\ ~client.socket
    /\ client.log = <<"stderr", "line">>
    /\ client.exit = EXIT_SUCCESS

\* ---------------------------------------------------- ResultWriter claims

\* the name the claim gives a site: letters and digits kept, the rest '_'
ExpectedName(site) ==
    [i \in 1..Len(site) |-> IF site[i] \in {"a", "Z", "7"} THEN site[i] ELSE "_"]

\* the record's site cannot name a file: none, empty, or too long
Unusable(site) ==
    IF site = nullptr THEN TRUE ELSE Len(site) = 0 \/ Len(site) >= LastSiteSize

\* the step is a call of Write in per-site mode on a payload that parses
PerSiteCall ==
    /\ writer.mode = "per_site"
    /\ writer'.calls = writer.calls + 1
    /\ writer'.in.d.parses

\* C15: for a non-empty site shorter than the buffer SanitizeSiteName returns
\* a string of the same length with each letter or digit kept in place and
\* every other character replaced by '_', so made of [A-Za-z0-9_] only and
\* never "/", "." or ".."; for an empty site or one that does not fit the
\* buffer it returns no name.
C15_Sanitize ==
    (writer.mode = "sanitize" /\ writer.done) =>
        IF Len(writer.site) # 0 /\ Len(writer.site) < writer.buffer_size
        THEN /\ writer.name # nullptr
             /\ Len(writer.name) = Len(writer.site)
             /\ \A i \in 1..Len(writer.site) :
                   writer.name[i] = IF writer.site[i] \in {"a", "Z", "7"}
                                    THEN writer.site[i] ELSE "_"
             /\ Range(writer.name) \subseteq {"a", "Z", "7", "_"}
             /\ writer.name \notin {<<".">>, <<".", ".">>}
        ELSE writer.name = nullptr

\* "a/." fits a buffer of four and becomes "a__"
C15_Witness ==
    /\ writer.mode = "sanitize"
    /\ writer.done
    /\ writer.site = <<"a", "/", ".">>
    /\ writer.buffer_size = 4
    /\ writer.name = <<"a", "_", "_">>

\* C17: in per-site mode a call of Write on a record without a site, with an
\* empty site or with a site too long to sanitize returns without writing,
\* without an error and with per_site_fd and last_site as they were; any
\* other record is never dropped, and is written when opening and writing
\* its file succeed.
C17_SilentDrop ==
    [][PerSiteCall =>
          /\ Unusable(writer'.in.d.site) =>
                /\ writer'.result = "dropped"
                /\ writer'.files = writer.files
                /\ writer'.per_site_fd = writer.per_site_fd
                /\ writer'.last_site = writer.last_site
                /\ writer'.opens = writer.opens
          /\ ~Unusable(writer'.in.d.site) =>
                /\ writer'.result # "dropped"
                /\ (writer'.in.open_ok /\ writer'.in.write_ok) =>
                      /\ writer'.result = "written"
                      /\ writer'.files =
                            Append(writer.files,
                                   [site |-> writer'.in.d.site,
                                    file |-> ExpectedName(writer'.in.d.site)])]_vars

\* a record with too long a site was dropped while the file of an earlier
\* record stays open
C17_Witness ==
    /\ writer.mode = "per_site"
    /\ writer.result = "dropped"
    /\ writer.in.d.site # nullptr
    /\ Len(writer.in.d.site) >= LastSiteSize
    /\ Len(writer.files) = 1
    /\ writer.per_site_fd = writer.files[1].file

\* C18: in per-site mode every record written went to the file named by its
\* own sanitized site; an open per_site_fd is the file named last_site; a
\* call opens a file exactly when the record has a sanitized name and no
\* file is open or the name differs from last_site, and a record written is
\* in the file open after the call.
C18_OwnFile ==
    /\ [](writer.mode = "per_site" =>
            /\ \A i \in 1..Len(writer.files) :
                  writer.files[i].file = ExpectedName(writer.files[i].site)
            /\ writer.per_site_fd # Undefined => writer.per_site_fd = writer.last_site)
    /\ [][PerSiteCall =>
            /\ writer'.opens \in {writer.opens, writer.opens + 1}
            /\ (writer'.opens = writer.opens + 1) <=>
                  /\ ~Unusable(writer'.in.d.site)
                  /\ writer.per_site_fd = Undefined
                        \/ ExpectedName(writer'.in.d.site) # writer.last_site
                  /\ writer'.in.open_ok
            /\ writer'.result = "written" =>
                  writer'.files[Len(writer'.files)].file = writer'.per_site_fd]_vars

\* three records written: the second to another file than the first, the
\* third, of a different site with the same sanitized name, to the file of
\* the second without reopening it
C18_Witness ==
    /\ writer.mode = "per_site"
    /\ Len(writer.files) = 3
    /\ writer.files[1].file # writer.files[2].file
    /\ writer.files[2].site # writer.files[3].site
    /\ writer.files[2].file = writer.files[3].file
    /\ writer.opens = 2

====
